---- MODULE Spec2Model ----
(***************************************************************************)
(* Collector of lolbench (src/collector.rs): the two-stage memoized        *)
(* pipeline "resolve-or-build binary hash, resolve-or-execute measurement" *)
(* over a directory-backed key/value store.                                *)
(*                                                                         *)
(* run, compute_builds_needed and plan_can_be_skipped_with_no_work are one *)
(* action each; run_benches_with_toolchain is three: ensure_installed, one *)
(* iteration of its loop, and its return.  The external collaborators      *)
(* (storage get/set, RunPlan::build, RunPlan::exec, the result files read  *)
(* by process, Toolchain::ensure_installed) are inputs chosen              *)
(* nondeterministically where the code consults them.                      *)
(*                                                                         *)
(* Spec has the calls of one process, one after the other.  SpecProcs has  *)
(* two processes on the same data directory, each executing run statement  *)
(* by statement, so that their lookups, builds and writes interleave.      *)
(***************************************************************************)
EXTENDS Naturals, Sequences, FiniteSets, TLC

\* ------------------------------------------------------------------ bounds
\* Longest batch handed to run_benches_with_toolchain.
MaxBatch == 2

\* ---------------------------------------------------------------- universe
Toolchains == {"nightly", "stable"}
Runners == {"runner0"}
Shields == {"shield0"}
\* The binaries a build can produce.
Hashes == {"h1", "h2"}

\* RunPlan: benchmark (name, runner), shield, toolchain.  The requested plans
\* are one benchmark under each toolchain: they differ only in toolchain.
Plan(t) == [toolchain |-> t, bench |-> "alpha", runner |-> "runner0", shield |-> "shield0"]
RunPlan == {Plan(t) : t \in Toolchains}

\* Option<T>
None == [some |-> FALSE]
Some(v) == [some |-> TRUE, val |-> v]

\* Result<T, E>
Ok(v) == [ok |-> TRUE, val |-> v]
Err(e) == [ok |-> FALSE, err |-> e]

\* The crate-level errors a call can return.
StorageError == "StorageError"
BuildError == "BuildError"
InstallError == "InstallError"

\* const DEFAULT_MAX_RETRIES: u8 = 2;
DEFAULT_MAX_RETRIES == 2

\* enum ErrorKind { Run(String), PostProcess(String) }: the text of the
\* message is left out.
ErrorKind == {"Run", "PostProcess"}

\* ------------------------------------------------------------ storage keys
\* index::Key::new(&rp): the build key, derived from the whole run-plan.
IndexKey(rp) ==
    [fam |-> "index", bench |-> rp.bench, toolchain |-> rp.toolchain,
     runner |-> rp.runner, shield |-> rp.shield]
IndexKeys == {IndexKey(rp) : rp \in RunPlan}

\* measurement::Key::new(binary_hash, runner, shield)
MeasurementKey(binary_hash, runner, shield) ==
    [fam |-> "measurement", binary_hash |-> binary_hash, runner |-> runner,
     shield |-> shield]
MeasurementKeys ==
    {MeasurementKey(h, r, s) : h \in Hashes, r \in Runners, s \in Shields}

\* ------------------------------------------------------ result files, Estimates
\* Statistic records found in the criterion output directory.
S1 == "S1"
S2 == "S2"
Missing == [file |-> "missing"]
Malformed == [file |-> "malformed"]
File(content) == [file |-> "json", content |-> content]

\* What exec can leave on disk: estimates.json and metrics-estimates.json.
PrimaryFiles == {Missing, Malformed, File(S1)}
SecondaryFiles ==
    {Missing, Malformed, File([m \in {"throughput"} |-> S2]),
     File([m \in {"nanoseconds"} |-> S2])}
OutputDirs == [primary : PrimaryFiles, secondary : SecondaryFiles]

\* Estimates::extend(other): entries of other replace entries with the same key.
Extend(est, other) ==
    [m \in DOMAIN est \cup DOMAIN other |->
        IF m \in DOMAIN other THEN other[m] ELSE est[m]]

\* -------------------------------------------------------------------- traces
\* The steps of a call on its collaborators, in the order they happen: the
\* step's name, with "_failed" appended when the step returned an error.
Ev(what, res) == IF res.ok THEN what ELSE what \o "_failed"

\* ------------------------------------------------------------------- Entry
Existing(v) == [tag |-> "Existing", val |-> v]
New(key, v) == [tag |-> "New", key |-> key, val |-> v]
\* impl Deref for Entry
Deref(entry) == entry.val

\* The store: the data directory `dir`.
EmptyStore ==
    [index |-> [k \in IndexKeys |-> None], meas |-> [k \in MeasurementKeys |-> None]]

\* Every operation below yields the set of ways it can go, each an outcome
\* [res, tr, st]: the Result it returns, the steps it took and the store it
\* leaves.
Ret(st, v) == {[res |-> Ok(v), tr |-> <<>>, st |-> st]}

\* `first?` followed by the rest of the function body: an Err of first is
\* returned at once, an Ok is handed to the continuation.
Try(first, rest(_)) ==
    UNION {IF ~o.res.ok THEN {o}
           ELSE {[res |-> n.res, tr |-> o.tr \o n.tr, st |-> n.st] : n \in rest(o)}
           : o \in first}

\* StorageKey::get(&dir): the decoded value, nothing, or a storage error.
\* A read creates nothing in the directory.
Get(st, key) ==
    {[res |-> r, tr |-> <<Ev(key.fam \o "_get", r)>>, st |-> st]
     : r \in {Err(StorageError),
              Ok(IF key.fam = "index" THEN st.index[key] ELSE st.meas[key])}}

\* StorageKey::set(&dir, value): the write succeeds or fails with a storage error.
Set(st, key, v) ==
    {[res |-> Err(StorageError), tr |-> <<key.fam \o "_set_failed">>, st |-> st],
     [res |-> Ok("unit"), tr |-> <<key.fam \o "_set">>,
      st |-> IF key.fam = "index"
             THEN [st EXCEPT !.index[key] = Some(v)]
             ELSE [st EXCEPT !.meas[key] = Some(v)]]}

\* Entry::ensure_persisted: a no-op for Existing; for New one write of the
\* key/outcome pair, surfacing the write's failure and, for a measurement
\* whose outcome is an error, that failure as the result of the call.
ComputeError == "ComputeError"
ensure_persisted(st, entry) ==
    IF entry.tag = "Existing"
    THEN Ret(st, "unit")
    ELSE Try(Set(st, entry.key, entry.val),
             LAMBDA w :
                IF entry.key.fam = "measurement" /\ ~entry.val.ok
                THEN {[res |-> Err(ComputeError), tr |-> <<>>, st |-> w.st]}
                ELSE Ret(w.st, "unit"))

\* RunPlan::build(): the hash of the binary it produced, or a build failure.
BuildOutcomes == {Err(BuildError)} \cup {Ok(h) : h \in Hashes}
Build(st, rp) == {[res |-> r, tr |-> <<Ev("build", r)>>, st |-> st] : r \in BuildOutcomes}

\* RunPlan::exec(): fails, or succeeds leaving result files on disk.
ExecOutcomes == {Err("exec failed")} \cup {Ok(d) : d \in OutputDirs}
Exec(st, rp) == {[res |-> r, tr |-> <<Ev("exec", r)>>, st |-> st] : r \in ExecOutcomes}

\* ---------------------------------------------------------------- Collector
\* fn process(&self, rp) -> Result<Estimates>, reading the output directory.
process(rp, dir) ==
    IF dir.primary.file = "missing" THEN Err("io")
    ELSE IF dir.primary.file = "malformed" THEN Err("json")
    ELSE LET metrics_estimates == [m \in {"nanoseconds"} |-> dir.primary.content] IN
         IF dir.secondary.file = "missing" THEN Ok(metrics_estimates)
         ELSE IF dir.secondary.file = "malformed" THEN Err("json")
         ELSE Ok(Extend(metrics_estimates, dir.secondary.content))

\* Bug: `ikey.get(&self.dir).ok().and_then(|found| found)`: a lookup that
\* failed counts as a key that is not stored.
existing_binary_hash_error_as_missing(st, rp) ==
    LET ikey == IndexKey(rp) IN
    {[res |-> Ok([key |-> ikey, found |-> IF g.res.ok THEN g.res.val ELSE None]),
      tr |-> g.tr, st |-> g.st] : g \in Get(st, ikey)}

\* fn existing_binary_hash(&self, rp) -> Result<(index::Key, Option<Vec<u8>>)>
existing_binary_hash(st, rp) ==
    LET ikey == IndexKey(rp) IN
    Try(Get(st, ikey), LAMBDA g : Ret(g.st, [key |-> ikey, found |-> g.res.val]))

\* Bug: the measurement key is derived from the plan's toolchain, not from
\* the binary it built.
existing_estimates_keyed_by_toolchain(st, rp, binary_hash) ==
    LET mkey == MeasurementKey(IF rp.toolchain = "nightly" THEN "h1" ELSE "h2",
                               rp.runner, rp.shield) IN
    Try(Get(st, mkey), LAMBDA g : Ret(g.st, [key |-> mkey, found |-> g.res.val]))

\* fn existing_estimates(&self, rp, binary_hash) -> Result<(measurement::Key, Option<Contents>)>
existing_estimates(st, rp, binary_hash) ==
    LET mkey == MeasurementKey(binary_hash, rp.runner, rp.shield) IN
    Try(Get(st, mkey), LAMBDA g : Ret(g.st, [key |-> mkey, found |-> g.res.val]))

\* Bug: a failed build is swallowed and the run goes on with a default hash.
compute_binary_hash_swallows_build_failure(st, rp) ==
    Try(existing_binary_hash(st, rp),
        LAMBDA x :
            IF x.res.val.found.some
            THEN Ret(x.st, Existing(x.res.val.found.val))
            ELSE {[res |-> Ok(New(x.res.val.key, IF b.res.ok THEN b.res.val ELSE "h1")),
                   tr |-> b.tr, st |-> b.st] : b \in Build(x.st, rp)})

\* Bug: the binary is built whether or not its hash is stored.
compute_binary_hash_always_builds(st, rp) ==
    Try(existing_binary_hash(st, rp),
        LAMBDA x :
            Try(Build(x.st, rp),
                LAMBDA b : Ret(b.st, New(x.res.val.key, b.res.val))))

\* fn compute_binary_hash(&self, rp) -> Result<Entry<index::Key, Vec<u8>>>
compute_binary_hash(st, rp) ==
    Try(existing_binary_hash(st, rp),
        LAMBDA x :
            IF x.res.val.found.some
            THEN Ret(x.st, Existing(x.res.val.found.val))
            ELSE Try(Build(x.st, rp),
                     LAMBDA b : Ret(b.st, New(x.res.val.key, b.res.val))))

\* Bug: any stored measurement, a recorded failure too, counts as done.
plan_can_be_skipped_any_record(st, rp) ==
    Try(existing_binary_hash(st, rp),
        LAMBDA b :
            IF b.res.val.found.some
            THEN Try(existing_estimates(b.st, rp, b.res.val.found.val),
                     LAMBDA e : Ret(e.st, e.res.val.found.some))
            ELSE Ret(b.st, FALSE))

\* Bug: the test resolves the binary hash the way run does, building and
\* persisting it when it is not stored.
plan_can_be_skipped_resolving_hash(st, rp) ==
    Try(compute_binary_hash(st, rp),
        LAMBDA bh :
            Try(ensure_persisted(bh.st, bh.res.val),
                LAMBDA p :
                    Try(existing_estimates(p.st, rp, Deref(bh.res.val)),
                        LAMBDA e :
                            Ret(e.st, e.res.val.found.some /\ e.res.val.found.val.ok))))

\* fn plan_can_be_skipped_with_no_work(&self, rp) -> Result<bool>
plan_can_be_skipped_with_no_work(st, rp) ==
    Try(existing_binary_hash(st, rp),
        LAMBDA b :
            IF b.res.val.found.some
            THEN Try(existing_estimates(b.st, rp, b.res.val.found.val),
                     LAMBDA e :
                        IF e.res.val.found.some /\ e.res.val.found.val.ok
                        THEN Ret(e.st, TRUE)
                        ELSE Ret(e.st, FALSE))
            ELSE Ret(b.st, FALSE))

\* Bug: the closures build the Error as one whose attempt can be repeated,
\* with the first retry already counted.
MapErr_retryable(why) ==
    [kind |-> "Run", max_retries |-> DEFAULT_MAX_RETRIES, num_retries |-> 1,
     retryable |-> TRUE]

\* The closure of both map_err calls of compute_estimates: the Error built
\* from the failure `why` of exec or of process.
MapErr(why) ==
    [kind |-> "Run", max_retries |-> DEFAULT_MAX_RETRIES, num_retries |-> 0,
     retryable |-> FALSE]

\* exec().map_err(..).and_then(|()| self.process(&rp).map_err(..))
exec_and_process(st, rp) ==
    {[res |-> Ok(IF ~x.res.ok THEN Err(MapErr(x.res.err))
                 ELSE LET p == process(rp, x.res.val) IN
                      IF p.ok THEN p ELSE Err(MapErr(p.err))),
      tr |-> IF x.res.ok THEN x.tr \o <<Ev("process", process(rp, x.res.val))>>
             ELSE x.tr,
      st |-> x.st]
     : x \in Exec(st, rp)}

\* Bug: a failed execution or post-processing is returned with `?` instead
\* of being wrapped in the new entry.
compute_estimates_drops_failure(st, rp, binary_hash) ==
    Try(existing_estimates(st, rp, binary_hash),
        LAMBDA x :
            IF x.res.val.found.some
            THEN Ret(x.st, Existing(x.res.val.found.val))
            ELSE Try(exec_and_process(x.st, rp),
                     LAMBDA r :
                        IF r.res.val.ok
                        THEN Ret(r.st, New(x.res.val.key, r.res.val))
                        ELSE {[res |-> Err(ComputeError), tr |-> <<>>, st |-> r.st]}))

\* fn compute_estimates(&self, rp, binary_hash) -> Result<Entry<measurement::Key, Contents>>
compute_estimates(st, rp, binary_hash) ==
    Try(existing_estimates(st, rp, binary_hash),
        LAMBDA x :
            IF x.res.val.found.some
            THEN Ret(x.st, Existing(x.res.val.found.val))
            ELSE Try(exec_and_process(x.st, rp),
                     LAMBDA r : Ret(r.st, New(x.res.val.key, r.res.val))))

\* Bug: the binary hash is persisted as soon as it is computed, before the
\* measurement is looked up or computed.
run_persisting_hash_first(st, rp) ==
    Try(compute_binary_hash(st, rp),
        LAMBDA binary_hash :
            Try(ensure_persisted(binary_hash.st, binary_hash.res.val),
                LAMBDA p :
                    Try(compute_estimates(p.st, rp, Deref(binary_hash.res.val)),
                        LAMBDA estimates : ensure_persisted(estimates.st, estimates.res.val))))

\* pub fn run(&self, rp) -> Result<()>
run(st, rp) ==
    Try(compute_binary_hash(st, rp),
        LAMBDA binary_hash :
            Try(compute_estimates(binary_hash.st, rp, Deref(binary_hash.res.val)),
                LAMBDA estimates :
                    Try(ensure_persisted(estimates.st, binary_hash.res.val),
                        LAMBDA p : ensure_persisted(p.st, estimates.res.val))))

\* The loop body of run_benches_with_toolchain is `self.run(rp)?`: the batch
\* goes on after a run that returned Ok and returns the error of one that
\* returned Err.
run_propagates(res) == ~res.ok

\* Bug: `let _ = toolchain.ensure_installed()?` drops the guard at once.
guard_dropped_at_once(installed) == FALSE

\* `let _guard = toolchain.ensure_installed()?`: the guard is bound to a name,
\* so it lives until the function body is left.
guard(installed) == installed

\* Iteration order of BTreeMap<Toolchain, _> and BTreeSet<RunPlan> (derived Ord).
ToolchainOrder == <<"nightly", "stable">>
RunPlanOrder == <<Plan("nightly"), Plan("stable")>>

\* The (toolchain, plan) pairs of the input map in the order the two loops of
\* compute_builds_needed visit them.
RECURSIVE Visits(_, _, _)
Visits(plans, ti, pi) ==
    IF ti > Len(ToolchainOrder) THEN <<>>
    ELSE IF pi > Len(RunPlanOrder) THEN Visits(plans, ti + 1, 1)
    ELSE LET t == ToolchainOrder[ti]
             rp == RunPlanOrder[pi] IN
         (IF rp \in plans[t] THEN <<[toolchain |-> t, rp |-> rp]>> ELSE <<>>)
             \o Visits(plans, ti, pi + 1)

\* Bug: the plan is filed under its own toolchain, not under the map key
\* being visited.
Push_under_plan_toolchain(needed, t, rp) ==
    [k \in DOMAIN needed \cup {rp.toolchain} |->
        IF k \in DOMAIN needed
        THEN (IF k = rp.toolchain THEN Append(needed[k], rp) ELSE needed[k])
        ELSE <<rp>>]

\* needed.entry(toolchain.clone()).or_insert_with(Vec::new).push(rp.to_owned())
Push(needed, t, rp) ==
    [k \in DOMAIN needed \cup {t} |->
        IF k \in DOMAIN needed
        THEN (IF k = t THEN Append(needed[k], rp) ELSE needed[k])
        ELSE <<rp>>]

\* The loops of compute_builds_needed from visit k on.
RECURSIVE builds_needed_from(_, _, _, _)
builds_needed_from(st, visits, k, needed) ==
    IF k > Len(visits) THEN Ret(st, needed)
    ELSE Try(plan_can_be_skipped_with_no_work(st, visits[k].rp),
             LAMBDA r :
                IF ~r.res.val
                THEN builds_needed_from(r.st, visits, k + 1,
                                        Push(needed, visits[k].toolchain, visits[k].rp))
                ELSE builds_needed_from(r.st, visits, k + 1, needed))

\* pub fn compute_builds_needed(&self, plans) -> Result<BTreeMap<Toolchain, Vec<RunPlan>>>
EmptyMap == [t \in {} |-> <<>>]
compute_builds_needed(st, plans) ==
    builds_needed_from(st, Visits(plans, 1, 1), 1, EmptyMap)

\* Batches handed to run_benches_with_toolchain: up to MaxBatch plans.
Batches == UNION {[1..n -> RunPlan] : n \in 0..MaxBatch}

\* Input maps of compute_builds_needed.
PlanMaps == [Toolchains -> SUBSET RunPlan]

\* -------------------------------------------------------------------- state
VARIABLES
    store,      \* the data directory: index and measurement records
    pre,        \* the data directory as it was when the last call started
    op,         \* the last function of Collector that ran
    arg,        \* its argument
    result,     \* what it returned
    trace,      \* the steps it took
    batch,      \* run_benches_with_toolchain: the call in progress or just returned
    lease,      \* whether the guard returned by ensure_installed is alive
    procs       \* the run calls of concurrent processes: position and locals

vars == <<store, pre, op, arg, result, trace, batch, lease, procs>>

\* The operating-system processes that share the data directory.
Procs == {"p1", "p2"}

\* A process that has not called run: no plan, no locals, nothing returned.
NotStarted ==
    [pc |-> "idle", rp |-> None, key |-> None, binary_hash |-> None, dir |-> None,
     estimates |-> None, res |-> None, tr |-> <<>>]

\* No call of run_benches_with_toolchain is in progress.
Idle == [state |-> "idle", rest |-> <<>>, ran |-> 0, res |-> Ok("unit")]

Init ==
    /\ store = EmptyStore
    /\ pre = EmptyStore
    /\ op = "new"
    /\ arg = <<>>
    /\ result = Ok("unit")
    /\ trace = <<>>
    /\ batch = Idle
    /\ lease = FALSE
    /\ procs = [p \in Procs |-> NotStarted]

\* The last call: function f with argument a went the way o.
Called(f, a, o) ==
    /\ pre' = store
    /\ store' = o.st
    /\ op' = f
    /\ arg' = a
    /\ result' = o.res
    /\ trace' = o.tr
    /\ UNCHANGED procs

\* A caller invokes Collector::run(rp).
Run ==
    /\ batch.state # "running"
    /\ \E rp \in RunPlan : \E o \in run(store, rp) : Called("run", <<rp>>, o)
    /\ batch' = Idle
    /\ UNCHANGED lease

\* compute_builds_needed's test of one plan, on its own.
Skip ==
    /\ batch.state # "running"
    /\ \E rp \in RunPlan : \E o \in plan_can_be_skipped_with_no_work(store, rp) :
        Called("plan_can_be_skipped_with_no_work", <<rp>>, o)
    /\ batch' = Idle
    /\ UNCHANGED lease

\* A caller invokes Collector::compute_builds_needed(plans).
BuildsNeeded ==
    /\ batch.state # "running"
    /\ \E plans \in PlanMaps : \E o \in compute_builds_needed(store, plans) :
        Called("compute_builds_needed", <<plans>>, o)
    /\ batch' = Idle
    /\ UNCHANGED lease

\* run_benches_with_toolchain, first statement: toolchain.ensure_installed()?.
\* On success the guard is held and the loop starts; on failure the call returns.
BatchInstall ==
    /\ batch.state # "running"
    /\ \E toolchain \in Toolchains, run_plans \in Batches, installed \in BOOLEAN :
        /\ Called("ensure_installed", <<toolchain>>,
                  [res |-> IF installed THEN Ok("guard") ELSE Err(InstallError),
                   tr |-> <<IF installed THEN "ensure_installed"
                            ELSE "ensure_installed_failed">>,
                   st |-> store])
        /\ batch' = IF installed
                    THEN [state |-> "running", rest |-> run_plans, ran |-> 0,
                          res |-> Ok("unit")]
                    ELSE [state |-> "returned", rest |-> run_plans, ran |-> 0,
                          res |-> Err(InstallError)]
        /\ lease' = guard(installed)

\* One iteration of `for rp in run_plans { self.run(rp)?; }`.
BatchRun ==
    /\ batch.state = "running"
    /\ batch.res.ok
    /\ batch.rest # <<>>
    /\ \E o \in run(store, Head(batch.rest)) :
        /\ Called("run", <<Head(batch.rest)>>, o)
        /\ batch' = [batch EXCEPT !.rest = Tail(@), !.ran = @ + 1,
                                  !.res = IF run_propagates(o.res) THEN o.res ELSE @]
    /\ UNCHANGED lease

\* The loop is over, or a run failed: the guard is dropped and the call returns.
BatchReturn ==
    /\ batch.state = "running"
    /\ \/ ~batch.res.ok
       \/ batch.rest = <<>>
    /\ batch' = [batch EXCEPT !.state = "returned"]
    /\ lease' = FALSE
    /\ UNCHANGED <<store, pre, op, arg, result, trace, procs>>

Next == Run \/ Skip \/ BuildsNeeded \/ BatchInstall \/ BatchRun \/ BatchReturn

Spec == Init /\ [][Next]_vars

\* ------------------------------------- run, statement by statement, per process
\* Process p is at `at` with the locals `with`, having taken the steps tr and
\* left the data directory as st.
Step(p, at, with, tr, st) ==
    /\ procs' = [procs EXCEPT ![p] =
                    [f \in DOMAIN @ |->
                        IF f = "pc" THEN at
                        ELSE IF f = "tr" THEN @[f] \o tr
                        ELSE IF f \in DOMAIN with THEN with[f] ELSE @[f]]]
    /\ store' = st
    /\ UNCHANGED <<pre, op, arg, result, trace, batch, lease>>

\* `return r` (an Err through `?`, or the final Ok(())): the locals are dropped.
Return(p, r, tr, st) ==
    Step(p, "returned",
         [key |-> None, binary_hash |-> None, dir |-> None, estimates |-> None,
          res |-> Some(r)], tr, st)

\* Bug: run takes a lock on the data directory and waits while another
\* process is inside run.
may_enter_under_lock(p) ==
    \A q \in Procs \ {p} : procs[q].pc \in {"idle", "returned"}

\* run starts with compute_binary_hash at once: nothing is acquired or
\* waited for before the first lookup.
may_enter(p) == TRUE

\* A process calls Collector::run(rp).
Call(p) ==
    /\ procs[p].pc = "idle"
    /\ \E rp \in RunPlan :
        Step(p, "existing_binary_hash", [rp |-> Some(rp)], <<>>, store)

\* compute_binary_hash: let (key, maybe_existing) = self.existing_binary_hash(rp)?
\* and the Some arm of the match.
LookupBinaryHash(p) ==
    /\ procs[p].pc = "existing_binary_hash"
    /\ may_enter(p)
    /\ \E o \in existing_binary_hash(store, procs[p].rp.val) :
        IF ~o.res.ok THEN Return(p, o.res, o.tr, o.st)
        ELSE IF o.res.val.found.some
        THEN Step(p, "existing_estimates",
                  [binary_hash |-> Some(Existing(o.res.val.found.val))], o.tr, o.st)
        ELSE Step(p, "build", [key |-> Some(o.res.val.key)], o.tr, o.st)

\* compute_binary_hash, the None arm: Entry::New(key, rp.build()?, dir).
BuildBinary(p) ==
    /\ procs[p].pc = "build"
    /\ \E o \in Build(store, procs[p].rp.val) :
        IF ~o.res.ok THEN Return(p, o.res, o.tr, o.st)
        ELSE Step(p, "existing_estimates",
                  [binary_hash |-> Some(New(procs[p].key.val, o.res.val))], o.tr, o.st)

\* compute_estimates: let (mkey, maybe_existing) = self.existing_estimates(..)?
\* and the Some arm of the match.
LookupEstimates(p) ==
    /\ procs[p].pc = "existing_estimates"
    /\ \E o \in existing_estimates(store, procs[p].rp.val,
                                   Deref(procs[p].binary_hash.val)) :
        IF ~o.res.ok THEN Return(p, o.res, o.tr, o.st)
        ELSE IF o.res.val.found.some
        THEN Step(p, "persist_binary_hash",
                  [estimates |-> Some(Existing(o.res.val.found.val))], o.tr, o.st)
        ELSE Step(p, "exec", [key |-> Some(o.res.val.key)], o.tr, o.st)

\* compute_estimates, the None arm: rp.exec().map_err(..); a failure becomes
\* the outcome of the new entry, a success leaves the result files on disk.
ExecBenchmark(p) ==
    /\ procs[p].pc = "exec"
    /\ \E o \in Exec(store, procs[p].rp.val) :
        IF ~o.res.ok
        THEN Step(p, "persist_binary_hash",
                  [estimates |-> Some(New(procs[p].key.val, Err(MapErr(o.res.err))))],
                  o.tr, o.st)
        ELSE Step(p, "process", [dir |-> Some(o.res.val)], o.tr, o.st)

\* .and_then(|()| self.process(&rp).map_err(..)); Entry::New(mkey, res, dir).
PostProcess(p) ==
    /\ procs[p].pc = "process"
    /\ LET r == process(procs[p].rp.val, procs[p].dir.val) IN
        Step(p, "persist_binary_hash",
             [estimates |-> Some(New(procs[p].key.val,
                                     IF r.ok THEN r ELSE Err(MapErr(r.err))))],
             <<Ev("process", r)>>, store)

\* binary_hash.ensure_persisted()?
PersistBinaryHash(p) ==
    /\ procs[p].pc = "persist_binary_hash"
    /\ \E o \in ensure_persisted(store, procs[p].binary_hash.val) :
        IF ~o.res.ok THEN Return(p, o.res, o.tr, o.st)
        ELSE Step(p, "persist_estimates", [key |-> None], o.tr, o.st)

\* estimates.ensure_persisted()?; Ok(())
PersistEstimates(p) ==
    /\ procs[p].pc = "persist_estimates"
    /\ \E o \in ensure_persisted(store, procs[p].estimates.val) :
        Return(p, o.res, o.tr, o.st)

\* The next statement of the run call of process p.
Statement(p) ==
    \/ LookupBinaryHash(p)
    \/ BuildBinary(p)
    \/ LookupEstimates(p)
    \/ ExecBenchmark(p)
    \/ PostProcess(p)
    \/ PersistBinaryHash(p)
    \/ PersistEstimates(p)

\* One statement of one process: the processes interleave freely.
ProcNext == \E p \in Procs : Call(p) \/ Statement(p)

SpecProcs == Init /\ [][ProcNext]_vars

\* ------------------------------------------------------------ the claims
\* What the data directory st holds for the plan rp.
HashOf(st, rp) == st.index[IndexKey(rp)]
MeasOf(st, rp) ==
    IF HashOf(st, rp).some
    THEN st.meas[MeasurementKey(HashOf(st, rp).val, rp.runner, rp.shield)]
    ELSE None
\* The plan's measurement key, once its binary hash is stored.
MeasKeyOf(st, rp) == MeasurementKey(HashOf(st, rp).val, rp.runner, rp.shield)
HoldsSuccess(st, rp) == MeasOf(st, rp).some /\ MeasOf(st, rp).val.ok
HoldsFailure(st, rp) == MeasOf(st, rp).some /\ ~MeasOf(st, rp).val.ok
Done(st, rp) == HashOf(st, rp).some /\ HoldsSuccess(st, rp)

Has(tr, what) == \E k \in 1..Len(tr) : tr[k] = what
\* The step was taken, whatever it returned.
Invoked(tr, what) == Has(tr, what) \/ Has(tr, what \o "_failed")
IsErr(res, e) == ~res.ok /\ res.err = e
\* A lookup or a write of the call failed in the storage layer.
StorageFailed(tr) ==
    \E k \in 1..Len(tr) :
        tr[k] \in {"index_get_failed", "measurement_get_failed", "index_set_failed",
                   "measurement_set_failed"}
Writes(tr) == Invoked(tr, "index_set") \/ Invoked(tr, "measurement_set")

IsSkipCall == op = "plan_can_be_skipped_with_no_work"
IsRunCall == op = "run"
IsBuildsNeededCall == op = "compute_builds_needed"

\* C1: plan_can_be_skipped_with_no_work answers true exactly when the store
\* holds a binary hash under the plan's build key and a successful
\* measurement under (that hash, runner, shield); with only a failure record
\* stored it answers false.  (A lookup that fails returns the storage error
\* and no answer.)
C1_SkipIffHashAndSuccess ==
    (IsSkipCall /\ result.ok) =>
        /\ result.val <=> (HashOf(pre, arg[1]).some /\ HoldsSuccess(pre, arg[1]))
        /\ HoldsFailure(pre, arg[1]) => (result.val = FALSE)

C1_Witness_FailureRecordNotSkipped ==
    /\ IsSkipCall
    /\ result.ok
    /\ result.val = FALSE
    /\ HoldsFailure(pre, arg[1])

\* C2: a run that finds a failure record under the plan's measurement key
\* executes the benchmark again.
C2_StoredFailureIsExecutedAgain ==
    (IsRunCall /\ HoldsFailure(pre, arg[1]) /\ Has(trace, "measurement_get"))
        => Invoked(trace, "exec")

\* C3: a plan that can be skipped stays so, and a run of it builds nothing,
\* executes nothing, writes nothing and returns success; a run that built,
\* executed, post-processed and persisted both entries leaves the plan in that
\* state.
C3_DoneRunDoesNoWork ==
    /\ \A rp \in RunPlan : Done(pre, rp) => Done(store, rp)
    /\ (IsRunCall /\ Done(pre, arg[1])) =>
        /\ ~Invoked(trace, "build")
        /\ ~Invoked(trace, "exec")
        /\ ~Writes(trace)
        /\ store = pre
        /\ ~StorageFailed(trace) => result = Ok("unit")
    /\ (/\ IsRunCall
        /\ result.ok
        /\ Has(trace, "build") /\ Has(trace, "exec") /\ Has(trace, "process")
        /\ Has(trace, "index_set") /\ Has(trace, "measurement_set"))
            => Done(store, arg[1])

C3_Witness_SecondRunFromCache ==
    /\ IsRunCall
    /\ Done(pre, arg[1])
    /\ result.ok
    /\ trace = <<"index_get", "measurement_get">>

\* Two plans that differ only in toolchain.
DifferOnlyInToolchain(a, b) ==
    /\ a.toolchain # b.toolchain
    /\ a.bench = b.bench /\ a.runner = b.runner /\ a.shield = b.shield

\* C4: when a plan q that differs from the plan of a run only in toolchain
\* has a successful measurement stored, and the run resolves the same binary
\* hash as q, the run does not execute the benchmark and leaves the stored
\* measurement as it is: its plan is done through q's record.
C4_MeasurementSharedAcrossToolchains ==
    IsRunCall =>
        \A q \in RunPlan :
            (/\ DifferOnlyInToolchain(q, arg[1])
             /\ Done(pre, q)
             /\ HashOf(store, arg[1]) = HashOf(pre, q))
                => /\ ~Invoked(trace, "exec")
                   /\ ~Invoked(trace, "measurement_set")
                   /\ store.meas = pre.meas
                   /\ Done(store, arg[1])
                   /\ ~StorageFailed(trace) => result = Ok("unit")

C4_Witness_OtherToolchainBuildsSameBinary ==
    /\ IsRunCall
    /\ \E q \in RunPlan :
        /\ DifferOnlyInToolchain(q, arg[1])
        /\ Done(pre, q)
        /\ ~HashOf(pre, arg[1]).some
        /\ HashOf(store, arg[1]) = HashOf(pre, q)
    /\ trace = <<"index_get", "build", "measurement_get", "index_set">>
    /\ result.ok

\* C5: a batch whose only failures are failed executions or post-processings
\* runs every one of its plans.
C5_BatchRunsEveryPlan ==
    (batch.state = "returned" /\ IsErr(batch.res, ComputeError)) => batch.rest = <<>>

\* C6: when a run finds no measurement and the execution or the
\* post-processing fails, no successful Estimates are written, and (unless a
\* write to the store itself fails) the store afterwards holds a failure
\* record under the plan's measurement key.
C6_FailedAttemptIsRecorded ==
    (IsRunCall /\ (Has(trace, "exec_failed") \/ Has(trace, "process_failed"))) =>
        /\ \A k \in MeasurementKeys :
            (store.meas[k].some /\ store.meas[k].val.ok) => store.meas[k] = pre.meas[k]
        /\ ~StorageFailed(trace) =>
            /\ HashOf(store, arg[1]).some
            /\ HoldsFailure(store, arg[1])
            /\ ~pre.meas[MeasKeyOf(store, arg[1])].some
            /\ Has(trace, "measurement_set")

C6_Witness_ProcessFailureStored ==
    /\ IsRunCall
    /\ Has(trace, "process_failed")
    /\ HoldsFailure(store, arg[1])
    /\ pre = EmptyStore

\* C7: when the build step of a run fails, the run returns the build error at
\* once: nothing is executed and the store is as it was.
C7_BuildFailureAbortsRun ==
    (IsRunCall /\ Has(trace, "build_failed")) =>
        /\ trace = <<"index_get", "build_failed">>
        /\ IsErr(result, BuildError)
        /\ store = pre

C7_Witness_BuildFails ==
    /\ IsRunCall
    /\ Has(trace, "build_failed")
    /\ ~HashOf(pre, arg[1]).some
    /\ store # EmptyStore

\* C8: a run whose build succeeds and whose Stage B fails returns failure with
\* the binary hash persisted; a later run of the plan builds nothing, attempts
\* Stage B again and, when that fails again, returns failure again.
C8_StageBRetriedAndFailsAgain ==
    /\ (/\ IsRunCall
        /\ Has(trace, "build")
        /\ Has(trace, "exec_failed") \/ Has(trace, "process_failed")
        /\ ~StorageFailed(trace))
            => (~result.ok /\ HashOf(store, arg[1]).some)
    /\ (IsRunCall /\ HoldsFailure(pre, arg[1]) /\ ~StorageFailed(trace)) =>
        /\ ~Invoked(trace, "build")
        /\ Invoked(trace, "exec")
        /\ (Has(trace, "exec_failed") \/ Has(trace, "process_failed")) => ~result.ok

\* C9: compute_builds_needed and plan_can_be_skipped_with_no_work only look
\* keys up: the store is as it was, and no toolchain is installed, nothing
\* is built, executed or written.
ReadSteps ==
    {"index_get", "index_get_failed", "measurement_get", "measurement_get_failed"}
C9_SkipComputationOnlyReads ==
    (IsSkipCall \/ IsBuildsNeededCall) =>
        /\ store = pre
        /\ \A k \in 1..Len(trace) : trace[k] \in ReadSteps

C9_Witness_BuildsNeededOnFilledStore ==
    /\ IsBuildsNeededCall
    /\ result.ok
    /\ Len(trace) >= 3
    /\ \E rp \in RunPlan : HoldsFailure(pre, rp)
    /\ \E rp \in RunPlan : ~HashOf(pre, rp).some

\* C10: compute_builds_needed maps each toolchain to the plans of its input
\* set that are not done, in the set's order and once each; a toolchain is a
\* key of the result exactly when it has such a plan.
PlanIndex(rp) == CHOOSE k \in 1..Len(RunPlanOrder) : RunPlanOrder[k] = rp
C10_BuildsNeededMirrorsInput ==
    (IsBuildsNeededCall /\ result.ok) =>
        LET plans == arg[1]
            needed == result.val
            Work(t) == {rp \in plans[t] : ~Done(pre, rp)} IN
        /\ DOMAIN needed = {t \in Toolchains : Work(t) # {}}
        /\ \A t \in DOMAIN needed :
            /\ {needed[t][k] : k \in 1..Len(needed[t])} = Work(t)
            /\ Len(needed[t]) = Cardinality(Work(t))
            /\ \A a, b \in 1..Len(needed[t]) :
                a < b => PlanIndex(needed[t][a]) < PlanIndex(needed[t][b])

C10_Witness_ToolchainDroppedAndFiltered ==
    /\ IsBuildsNeededCall
    /\ result.ok
    /\ \E t \in Toolchains : arg[1][t] # {} /\ t \notin DOMAIN result.val
    /\ \E t \in DOMAIN result.val : Len(result.val[t]) < Cardinality(arg[1][t])

\* A call of run_benches_with_toolchain is between its ensure_installed and
\* its return.
InBatch == batch.state = "running"
LeaseHeldInBatch ==
    /\ InBatch => lease
    /\ lease => InBatch
    /\ (batch.state = "returned" /\ IsErr(batch.res, InstallError)) => batch.ran = 0
LeaseStep ==
    \* a plan of the batch is run with the lease held before and after
    /\ (InBatch /\ batch'.ran # batch.ran) => (lease /\ lease')
    \* the lease is released by the return only: after the last run call, or
    \* after the run call that failed
    /\ (lease /\ ~lease') =>
        /\ batch'.state = "returned"
        /\ batch.rest = <<>> \/ ~batch.res.ok
    \* the lease is acquired before any plan of the batch has run
    /\ (~lease /\ lease') => (batch'.ran = 0 /\ op' = "ensure_installed")

\* C11: in run_benches_with_toolchain the lease is acquired before the first
\* plan is run and released only when the call returns, after the last run
\* call or after the one that failed; every plan of the batch is run with the
\* lease held, and when ensure_installed fails no plan is run.
C11_LeaseHeldForWholeBatch == []LeaseHeldInBatch /\ [][LeaseStep]_vars

C11_Witness_LeaseHeldOnEarlyReturn ==
    /\ InBatch
    /\ lease
    /\ ~batch.res.ok
    /\ batch.rest # <<>>
    /\ batch.ran = 1

\* Process p has post-processed the result files dir into the entry estimates.
Processed(p) == procs[p].dir.some /\ procs[p].estimates.some
Merged(p) == procs[p].estimates.val.val
PrimaryIsS1(p) == procs[p].dir.val.primary = File(S1)

\* C12: process returns the primary record under "nanoseconds" merged with
\* the entries of the secondary record: {nanoseconds: S1, throughput: S2} for
\* the secondary {throughput: S2}, {nanoseconds: S1} and no error without a
\* secondary record, and S1 under "nanoseconds" whatever the secondary record
\* holds.
C12_ProcessMergesRecords ==
    \A p \in Procs :
        (Processed(p) /\ PrimaryIsS1(p)) =>
            LET secondary == procs[p].dir.val.secondary IN
            /\ secondary = File([m \in {"throughput"} |-> S2])
                => Merged(p) = Ok([m \in {"nanoseconds", "throughput"} |->
                                    IF m = "nanoseconds" THEN S1 ELSE S2])
            /\ secondary = Missing => Merged(p) = Ok([m \in {"nanoseconds"} |-> S1])
            /\ secondary.file = "json"
                => (Merged(p).ok /\ Merged(p).val["nanoseconds"] = S1)

\* A lookup of the call failed in the storage layer.
LookupFailed(tr) == Has(tr, "index_get_failed") \/ Has(tr, "measurement_get_failed")

\* C13: in run, plan_can_be_skipped_with_no_work and compute_builds_needed a
\* lookup that fails with a storage error is the last step of the call: the
\* call returns that error, nothing is built or executed after it, nothing
\* is written and the store is as it was.
C13_LookupErrorIsReturned ==
    ((IsRunCall \/ IsSkipCall \/ IsBuildsNeededCall) /\ LookupFailed(trace)) =>
        /\ IsErr(result, StorageError)
        /\ trace[Len(trace)] \in {"index_get_failed", "measurement_get_failed"}
        /\ \A k \in 1..(Len(trace) - 1) :
            trace[k] \notin {"index_get_failed", "measurement_get_failed"}
        /\ Has(trace, "index_get_failed") => ~Invoked(trace, "build")
        /\ ~Invoked(trace, "exec")
        /\ ~Writes(trace)
        /\ store = pre

C13_Witness_MeasurementLookupFailsAfterBuild ==
    /\ IsRunCall
    /\ trace = <<"index_get", "build", "measurement_get_failed">>
    /\ IsErr(result, StorageError)
    /\ \E q \in RunPlan : Done(pre, q)

\* The place of a step in the order of run.
RankOf(e) ==
    CASE e \in {"index_get", "index_get_failed"} -> 1
      [] e \in {"build", "build_failed"} -> 2
      [] e \in {"measurement_get", "measurement_get_failed"} -> 3
      [] e \in {"exec", "exec_failed"} -> 4
      [] e \in {"process", "process_failed"} -> 5
      [] e \in {"index_set", "index_set_failed"} -> 6
      [] e \in {"measurement_set", "measurement_set_failed"} -> 7
      [] OTHER -> 0

\* C14: the steps of one run call happen in the order build-key lookup,
\* build, measurement-key lookup, execution, post-processing, write of the
\* binary hash, write of the measurement, each at most once; the build only
\* after a lookup that missed, the execution only after a resolved binary
\* hash and a measurement lookup that missed, the post-processing only after
\* a successful execution, the write of the hash only if it was built, the
\* write of the measurement only if it was computed, and no write before the
\* measurement lookup and the computation of both stages.
C14_RunStepsInOrder ==
    IsRunCall =>
        /\ Len(trace) >= 1 /\ RankOf(trace[1]) = 1
        /\ \A k \in 1..Len(trace) : RankOf(trace[k]) # 0
        /\ \A j, k \in 1..Len(trace) : j < k => RankOf(trace[j]) < RankOf(trace[k])
        /\ Invoked(trace, "build") =>
            (Has(trace, "index_get") /\ ~HashOf(pre, arg[1]).some)
        /\ Invoked(trace, "measurement_get") =>
            (HashOf(pre, arg[1]).some \/ Has(trace, "build"))
        /\ Invoked(trace, "exec") =>
            /\ Has(trace, "measurement_get")
            /\ HashOf(store, arg[1]).some => ~pre.meas[MeasKeyOf(store, arg[1])].some
        /\ Invoked(trace, "process") => Has(trace, "exec")
        /\ Invoked(trace, "index_set") => Has(trace, "build")
        /\ Invoked(trace, "measurement_set") => Invoked(trace, "exec")
        /\ Has(trace, "exec") => Invoked(trace, "process")
        /\ Writes(trace) => Has(trace, "measurement_get")

C14_Witness_AllSevenSteps ==
    /\ IsRunCall
    /\ trace = <<"index_get", "build", "measurement_get", "exec", "process_failed",
                 "index_set", "measurement_set">>
    /\ pre # EmptyStore

\* How often the step was taken in the call.
Times(tr, what) ==
    Cardinality({k \in 1..Len(tr) : tr[k] \in {what, what \o "_failed"}})

\* What the last call did to the keys of the store.
KeysWrittenByMissingRun ==
    /\ store # pre => IsRunCall
    /\ \A k \in IndexKeys :
        store.index[k] # pre.index[k] =>
            /\ k = IndexKey(arg[1])
            /\ ~pre.index[k].some
            /\ Has(trace, "index_get") /\ Has(trace, "build") /\ Has(trace, "index_set")
    /\ \A k \in MeasurementKeys :
        store.meas[k] # pre.meas[k] =>
            /\ k = MeasKeyOf(store, arg[1])
            /\ ~pre.meas[k].some
            /\ Has(trace, "measurement_get") /\ Has(trace, "measurement_set")
    /\ IsRunCall =>
        /\ HashOf(pre, arg[1]).some =>
            (~Invoked(trace, "build") /\ ~Invoked(trace, "index_set"))
        /\ Times(trace, "build") <= 1
        /\ Times(trace, "index_set") <= 1
        /\ Times(trace, "measurement_set") <= 1

\* A binary hash stored under a build key stays as it is.
HashKept == \A k \in IndexKeys : store.index[k].some => store'.index[k] = store.index[k]

\* C15: over sequential calls of run, run_benches_with_toolchain and
\* compute_builds_needed a build key that maps to a binary hash maps to that
\* hash in every later state and is never built again; a key is written only
\* by a run call whose lookup of that key found nothing, at most once in the
\* call.
C15_HashPermanentKeysWrittenOnce == []KeysWrittenByMissingRun /\ [][HashKept]_vars

C15_Witness_HashReusedMeasurementWritten ==
    /\ IsRunCall
    /\ HashOf(pre, arg[1]).some
    /\ ~MeasOf(pre, arg[1]).some
    /\ trace = <<"index_get", "measurement_get", "exec", "process", "measurement_set">>
    /\ HashOf(store, arg[1]) = HashOf(pre, arg[1])
    /\ HoldsSuccess(store, arg[1])

\* Process p is inside run.
InRun(p) == procs[p].pc \notin {"idle", "returned"}
\* Process p is about to persist a binary hash it built itself.
AboutToPersistBuilt(p) ==
    procs[p].pc = "persist_binary_hash" /\ procs[p].binary_hash.val.tag = "New"

\* C16: concurrent run calls are not coordinated: a process inside run can
\* always take its next statement, whatever the other process is doing, and
\* a process that found the build key missing and built the binary can write
\* its record under that key whatever the store holds by then.
C16_RunsNotCoordinated ==
    \A p \in Procs :
        /\ InRun(p) => ENABLED Statement(p)
        /\ AboutToPersistBuilt(p) =>
            ENABLED (/\ PersistBinaryHash(p)
                     /\ store'.index[procs[p].binary_hash.val.key]
                            = Some(procs[p].binary_hash.val.val))

\* Both processes run the same plan, both looked the build key and the
\* measurement key up and found nothing, both built and executed, both wrote
\* the binary hash under the same build key and are about to write their
\* measurement under the same measurement key.
C16_Witness_BothBuiltBothPersisted ==
    /\ procs["p1"].rp = procs["p2"].rp
    /\ \A p \in Procs :
        /\ procs[p].pc = "persist_estimates"
        /\ procs[p].tr = <<"index_get", "build", "measurement_get", "exec", "process",
                           "index_set">>
        /\ procs[p].estimates.val.tag = "New"
    /\ procs["p1"].estimates.val.key = procs["p2"].estimates.val.key

\* The failure records of the store.
StoredErrors ==
    {store.meas[k].val.err :
        k \in {j \in MeasurementKeys : store.meas[j].some /\ ~store.meas[j].val.ok}}

\* C17: every Error stored as a measurement outcome, from a failed execution
\* or a failed post-processing, has kind Run, num_retries 0, max_retries 2
\* and retryable false; a run call executes the benchmark at most once.
C17_StoredErrorIsRunNotRetried ==
    /\ \A e \in StoredErrors :
        /\ e.kind \in ErrorKind /\ e.kind = "Run"
        /\ e.num_retries = 0
        /\ e.max_retries = 2
        /\ e.retryable = FALSE
    /\ IsRunCall => Times(trace, "exec") <= 1

C17_Witness_ExecFailureStored ==
    /\ IsRunCall
    /\ Has(trace, "exec_failed")
    /\ Has(trace, "measurement_set")
    /\ ~pre.meas[MeasKeyOf(store, arg[1])].some
    /\ MeasOf(store, arg[1]).val.err \in StoredErrors
    /\ \E q \in RunPlan : HoldsSuccess(pre, q)

\* C18: whenever run(rp) returns success the plan is done in the resulting
\* store: its binary hash and a successful measurement are stored, so
\* plan_can_be_skipped_with_no_work(rp) is true; also when the store held a
\* failure record under the plan's measurement key.
C18_RunSuccessMeansDone ==
    (IsRunCall /\ result.ok) =>
        /\ Done(store, arg[1])
        /\ \A o \in plan_can_be_skipped_with_no_work(store, arg[1]) :
            o.res.ok => o.res.val = TRUE

====
